---- MODULE Spec2Model ----
(***************************************************************************)
(* GreenLeaf Nursery backend: the Redis-based login rate limiter           *)
(* (middleware/loginRateLimiter.js), the POST /api/auth/login route that   *)
(* uses it (routes/auth.js) and the administrative unblock                 *)
(* (routes/admin.js).                                                      *)
(*                                                                         *)
(* Also modelled: the cart totals calculator of routes/cart.js, computed   *)
(* in IEEE 754 double arithmetic as JavaScript does.                       *)
(*                                                                         *)
(* Every await on a Redis call is one atomic step of a request, so         *)
(* requests that are in flight together interleave at exactly the points   *)
(* where Node's event loop can switch between them.  Time advances in      *)
(* steps of TickSeconds; a key whose TTL reaches 0 is gone.                *)
(***************************************************************************)
EXTENDS Integers, FiniteSets, Sequences, Bags, TLC

\* ---------------------------------------------------------------- bounds
NumReqs == 2            \* login requests that can be in flight together
NumIdents == 1          \* distinct identifiers (email or IP)
TicksPerWindow == 2     \* clock steps in one 15 minute window
NumCarts == 1           \* cart sessions that can be created
NumProducts == 2        \* products in products.json
NumCartReqs == 2        \* cart requests that can be in flight together
MaxCartCalls == 3       \* cart requests sent in one run
MaxEdits == 1           \* edits of products.json in one run
NumCacheReqs == 2       \* product requests that can be in flight together
NumNewsReqs == 2        \* subscribe requests that can be in flight together
NumNames == 1           \* distinct mailboxes that subscribe
NumShopItems == 2       \* products the browser can put into its cart
MaxQuantity == 2        \* largest quantity of one item followed in the browser's cart
NumWrapped == 2         \* calls of wrapped handlers that can be in flight together
MaxAwaits == 2          \* awaits a handler goes through before it settles
TicksPerListTtl == 2    \* clock steps in the lifetime of a cached product list
MaxChanges == 1         \* changes of the products table that are followed

\* ------------------------------------------------------- program constants
MAX_ATTEMPTS == 5
BLOCK_DURATION == 15 * 60
ATTEMPT_WINDOW == 15 * 60

Idents == 1..NumIdents

\* The strings a client can put in req.body.email: identifier i as the
\* account's stored (lower-case) email, and NumIdents + i as the same address
\* written with capitals.  The limiter's keys are built from the string as sent.
Spellings == 1..(2 * NumIdents)

\* body('email').normalizeEmail(), then User.findOne({ email }): the account
\* the route looks up for a submitted spelling.
AccountOf(k) == IF k > NumIdents THEN k - NumIdents ELSE k
TickSeconds == BLOCK_DURATION \div TicksPerWindow

\* What the submitted body turns out to be once the route looks at it:
\* rejected by the validators, unknown email, wrong password, or correct.
Creds == {"invalid", "nouser", "wrongpw", "ok"}

VARIABLES
  attemptVal,      \* value of key login_attempts:<id> (0 when the key is absent)
  attemptTtl,      \* its remaining TTL in seconds (0 = key absent)
  blockTtl,        \* remaining TTL of key login_blocked:<id> (0 = key absent)
  redisUp,         \* whether a Redis call succeeds (FALSE: the call rejects)
  inflight,        \* bag of the login requests in flight: position and req object
  admin,           \* the administrative unblock request in flight (wasBlocked:
                   \*   observer, the flag was set when the request arrived)
  res,             \* the HTTP response sent by the last step, if it sent one
  failRun,         \* observer: failures recorded for <id> since its counter was last
                   \*   reset; -1 (not followed) if a login for <id> was in flight then
  maxInc,          \* observer: largest count recordFailedAttempt returned in that run
  lastReset        \* observer: per id, what last removed its state with no failure
                   \*   recorded since: "success" (a login that cleared recorded
                   \*   failures), "unblock" (of a blocked id), else "none"

\* The cart totals calculator called on its own.
VARIABLES
  lineItems,       \* the items array handed to calculateCartTotals
  result           \* what the call returned (NoResult before the call)

\* The cart API over its two JSON files.
VARIABLES
  cartsFile,       \* carts.json: the array of carts
  productsFile,    \* products.json: product id -> its entry
  cartInflight,    \* bag of cart requests being handled
  cartRes,         \* the response sent by the last step (NoCartRes if none)
  sessionsIssued,          \* session ids handed out so far
  sent,            \* cart requests sent so far
  edits            \* edits of products.json so far

\* The product cache in Redis.
VARIABLES
  cache,           \* cache key -> remaining TTL and age of the entry (TTL 0: no entry)
  cacheInflight,   \* bag of product requests being handled
  cacheRes,        \* the response sent by the last step (NoCacheRes if none)
  dbVersion,       \* the number of changes made to the products table so far
  doneVersion      \* observer: the last change whose request has been answered

\* Route handlers wrapped by asyncHandler.
VARIABLES
  calls            \* per wrapped call: where it stands, the error it met, what
                   \*   next was called with and the status answered

\* The newsletter subscriptions of routes/api.js.
VARIABLES
  newsFile,        \* newsletter.json: the array of subscriptions
  newsInflight,    \* bag of subscribe requests being handled
  newsRes          \* the response sent by the last step (NoNewsRes if none)

\* The shopping cart of the browser (frontend/js/cart.js, frontend/js/main.js).
VARIABLES
  memoryCart,      \* the array `cart` of cart.js
  localStorage     \* the array stored under 'plant-nursery-cart'

browserVars == <<memoryCart, localStorage>>
limiterVars == <<attemptVal, attemptTtl, blockTtl, redisUp, inflight, admin, res,
                 failRun, maxInc, lastReset>>
calcVars == <<lineItems, result>>
asyncVars == <<calls>>
newsVars == <<newsFile, newsInflight, newsRes>>
cartVars == <<cartsFile, productsFile, cartInflight, cartRes, sessionsIssued, sent, edits>>

\* Everything outside the login rate limiter.
cacheVars == <<cache, cacheInflight, cacheRes, dbVersion, doneVersion>>
notLimiter == <<calcVars, cartVars, cacheVars, asyncVars, newsVars, browserVars>>

vars == <<limiterVars, calcVars, cartVars, cacheVars, asyncVars, newsVars, browserVars>>

store == <<attemptVal, attemptTtl, blockTtl>>
observers == <<failRun, maxInc, lastReset>>

NoInfo == [set |-> FALSE, attempts |-> 0, remaining |-> 0, willBlock |-> FALSE]
NoRes == [from |-> "none"]
IdleAdmin == [pc |-> "idle", identifier |-> 1, wasBlocked |-> FALSE]

\* The req object of a request that has just arrived.  Observers on it:
\* sawBlock (the flag was in the store when the check read it), threwAt (the
\* check's call that rejected), cred (what the route found the body to be).
NewReq(i) == [pc |-> "chkBlock", identifier |-> i, hasLoginAttempts |-> FALSE,
              currentAttempts |-> 0, sawBlock |-> FALSE, threwAt |-> "",
              cred |-> "none"]

Min(a, b) == IF a < b THEN a ELSE b
Max(a, b) == IF a > b THEN a ELSE b

NoResult == [returned |-> FALSE]

\* Nothing has been handed to the calculator.
CalcIdle == lineItems = << >> /\ result = NoResult

\* Everything outside the totals calculator called on its own.
notCalc == <<limiterVars, cartVars, cacheVars, asyncVars, newsVars, browserVars>>

\* Everything outside the cart API.
notCart == <<limiterVars, calcVars, cacheVars, asyncVars, newsVars, browserVars>>

\* Everything outside the product routes and outside Redis.
notCache == <<calcVars, cartVars, asyncVars, newsVars, browserVars>>

Sessions == 1..NumCarts
ProductIds == 1..NumProducts

\* The price (in cents) a product is listed at to begin with, and the price an
\* edit of the catalogue changes it to.
ListPrice(p) == IF p = 1 THEN 1000 ELSE 5500
NewPrice(p) == IF p = 1 THEN 2490 ELSE 3000

InitialCatalog == [p \in ProductIds |-> [listed |-> TRUE, price |-> ListPrice(p), inStock |-> TRUE]]

NoCartRes == [status |-> 0, error |-> "none"]

\* No cart exists, the catalogue is as shipped, no cart request is in flight.
CartIdle ==
  /\ cartsFile = << >>
  /\ productsFile = InitialCatalog
  /\ cartInflight = EmptyBag
  /\ cartRes = NoCartRes
  /\ sessionsIssued = 0
  /\ sent = 0
  /\ edits = 0

\* The cache keys followed: the list under one query string, one product.
ListKey == "products:{}"
ProductKey == "product:1"
CacheKeys == {ListKey, ProductKey}

NoEntry == [ttl |-> 0, age |-> 0, version |-> 0]
NoCacheRes == [source |-> "none", key |-> "", status |-> 0, age |-> 0, version |-> 0, since |-> 0]

\* Nothing is cached and no product request is in flight.
CacheIdle ==
  /\ cache = [k \in CacheKeys |-> NoEntry]
  /\ cacheInflight = EmptyBag
  /\ cacheRes = NoCacheRes
  /\ dbVersion = 0
  /\ doneVersion = 0

\* Everything outside the wrapped handlers.
notAsync == <<limiterVars, calcVars, cartVars, cacheVars, newsVars, browserVars>>

\* A JavaScript value where numbers and strings get mixed up.
NumberValue(n) == [kind |-> "number", num |-> n, text |-> ""]
StringValue(s) == [kind |-> "string", num |-> 0, text |-> s]
Undefined == [kind |-> "undefined", num |-> 0, text |-> ""]

NoError == [name |-> "", message |-> Undefined, statusCode |-> Undefined]
IdleCall == [pc |-> "idle", awaits |-> 0, throws |-> FALSE, error |-> NoError,
             nextCalls |-> << >>, status |-> 0]
Wrapped == 1..NumWrapped

\* No wrapped handler has been called.
AsyncIdle == calls = [i \in Wrapped |-> IdleCall]

\* Everything outside the newsletter route.
notNews == <<limiterVars, calcVars, cartVars, cacheVars, asyncVars, browserVars>>

\* An email address as submitted: the mailbox it names, whether it is spelled
\* with capital letters, and whether it is an address at all.
Address(name, capitals) == [name |-> name, capitals |-> capitals, wellFormed |-> TRUE]
NotAnAddress == [name |-> 0, capitals |-> FALSE, wellFormed |-> FALSE]

\* A mailbox that unsubscribed at some time in the past.
FormerSubscriber == NumNames + 1

NoNewsRes == [status |-> 0, email |-> NotAnAddress]

\* newsletter.json holds one subscription that was cancelled; no subscribe
\* request is in flight.
NewsIdle ==
  /\ newsFile = <<[email |-> Address(FormerSubscriber, FALSE), status |-> "unsubscribed"]>>
  /\ newsInflight = EmptyBag
  /\ newsRes = NoNewsRes

\* Everything outside the browser.
notBrowser == <<limiterVars, calcVars, cartVars, cacheVars, asyncVars, newsVars>>

\* The ids of cart items: a product's number, a gift set's name.
ProductItem(n) == [gift |-> FALSE, n |-> n]
GiftItem == [gift |-> TRUE, n |-> 0]
ShopIds == {ProductItem(n) : n \in 1..NumShopItems} \cup {GiftItem}

\* The page has loaded with nothing stored.
BrowserIdle == memoryCart = << >> /\ localStorage = << >>

Init ==
  /\ attemptVal = [i \in Spellings |-> 0]
  /\ attemptTtl = [i \in Spellings |-> 0]
  /\ blockTtl = [i \in Spellings |-> 0]
  /\ redisUp = TRUE
  /\ inflight = EmptyBag
  /\ admin = IdleAdmin
  /\ res = NoRes
  /\ failRun = [i \in Spellings |-> 0]
  /\ maxInc = [i \in Spellings |-> 0]
  /\ lastReset = [i \in Spellings |-> "none"]
  /\ CalcIdle
  /\ CartIdle
  /\ CacheIdle
  /\ NewsIdle
  /\ AsyncIdle
  /\ BrowserIdle

Requests == BagToSet(inflight)
AdminInFlight == admin.pc # "idle"

\* The request q moves on as q2 / is answered and leaves.
Goes(q, q2) == inflight' = (inflight (-) SetToBag({q})) (+) SetToBag({q2})
Leaves(q) == inflight' = inflight (-) SetToBag({q})

\* res.status(...).json(...) of the login route or its rate limiter.
LoginResponse(q, status, info, issued) ==
  [from |-> "login", status |-> status, attemptInfo |-> info, issued |-> issued,
   afterClear |-> FALSE, req |-> q]

\* --------------------------------------------------------- Redis semantics
\* Mutant: the block is honoured only while a counter is also present.
IsBlockedWithCounter(i) == blockTtl[i] > 0 /\ attemptTtl[i] > 0

\* redisClient.get(blockKey): a present key reads as the truthy 'blocked'.
IsBlocked(i) == blockTtl[i] > 0

\* attempts ? parseInt(attempts) : 0   (an absent key reads as null)
AttemptCount(i) == IF attemptTtl[i] > 0 THEN attemptVal[i] ELSE 0

\* Mutant: the threshold test written with > instead of >=.
MaxReachedStrict(n) == n > MAX_ATTEMPTS

\* if (attemptCount >= MAX_ATTEMPTS)
MaxReached(n) == n >= MAX_ATTEMPTS

\* Mutant: the new count is the count read plus two.
NewAttemptCountByTwo(cur) == cur + 2

\* const newAttemptCount = currentAttempts + 1
NewAttemptCount(cur) == cur + 1

\* const remainingAttempts = MAX_ATTEMPTS - newAttemptCount
RemainingAttempts(n) == MAX_ATTEMPTS - n

\* Mutant: the block written with the duration in minutes instead of seconds.
BlockTtlInMinutes == BLOCK_DURATION \div 60

\* redisClient.setEx(blockKey, BLOCK_DURATION, 'blocked')
BlockTtlWritten == BLOCK_DURATION

\* redisClient.setEx(key, ATTEMPT_WINDOW, ...)
AttemptTtlWritten == ATTEMPT_WINDOW

RunCap == MAX_ATTEMPTS + 1

\* Mutant: the del of the counter key is lost.
DelAttemptsLost(i) == UNCHANGED <<attemptVal, attemptTtl>>

\* redisClient.del(key) on login_attempts:<i>
DelAttempts(i) ==
  /\ attemptVal' = [attemptVal EXCEPT ![i] = 0]
  /\ attemptTtl' = [attemptTtl EXCEPT ![i] = 0]

\* No request of the bag b is a login for i.
NoLoginFor(i, b) == \A p \in BagToSet(b) : p.identifier # i

\* The run of failures of i is followed: it began with no login in flight.
RunClean(i) == failRun[i] >= 0

\* Observer updates shared by the steps that delete the counter of i, with
\* the requests of bag b still in flight.
CounterReset(i, b) ==
  /\ failRun' = [failRun EXCEPT ![i] = IF NoLoginFor(i, b) THEN 0 ELSE -1]
  /\ maxInc' = [maxInc EXCEPT ![i] = 0]

\* ------------------------------------------------------------ POST /login
\* A request arrives: identifier = req.body.email || req.ip.
StartLoginFrom(emails) ==
  /\ BagCardinality(inflight) < NumReqs
  /\ \E i \in emails : inflight' = inflight (+) SetToBag({NewReq(i)})
  /\ res' = NoRes
  /\ UNCHANGED <<store, redisUp, admin, observers>>
  /\ UNCHANGED notLimiter

\* Every client writes its email as the account has it.
StartLogin == StartLoginFrom(Idents)

\* Mutant: the catch block denies the request instead of calling next().
FailClosed(q) ==
  /\ Leaves(q)
  /\ res' = LoginResponse([q EXCEPT !.threwAt = q.pc], 500, NoInfo, FALSE)
  /\ UNCHANGED <<store, redisUp, admin, observers>>

\* catch (error) { next(); } : the request goes on without req.loginAttempts.
FailOpen(q) ==
  /\ Goes(q, [q EXCEPT !.pc = "verify", !.threwAt = q.pc])
  /\ res' = NoRes
  /\ UNCHANGED <<store, redisUp, admin, observers>>

\* ----------------------------------------------------- checkLoginAttempts
\* const isBlocked = await redisClient.get(blockKey)
ChkGetBlock(q) ==
  /\ q.pc = "chkBlock"
  /\ IF ~redisUp THEN FailOpen(q)
     ELSE /\ Goes(q, [q EXCEPT !.pc = IF IsBlocked(q.identifier)
                                       THEN "chkTtl" ELSE "chkCount",
                               !.sawBlock = blockTtl[q.identifier] > 0])
          /\ res' = NoRes
          /\ UNCHANGED <<store, redisUp, admin, observers>>
  /\ UNCHANGED notLimiter

\* const ttl = await redisClient.ttl(blockKey); return res.status(429)...
ChkTtl(q) ==
  /\ q.pc = "chkTtl"
  /\ IF ~redisUp THEN FailOpen(q)
     ELSE /\ Leaves(q)
          /\ res' = LoginResponse(q, 429, NoInfo, FALSE)
          /\ UNCHANGED <<store, redisUp, admin, observers>>
  /\ UNCHANGED notLimiter

\* const attempts = await redisClient.get(key); the branch on MAX_ATTEMPTS;
\* req.loginAttempts = {...}; next()
ChkGetCount(q) ==
  /\ q.pc = "chkCount"
  /\ IF ~redisUp THEN FailOpen(q)
     ELSE LET n == AttemptCount(q.identifier) IN
          /\ Goes(q, IF MaxReached(n)
                     THEN [q EXCEPT !.pc = "chkSetBlock"]
                     ELSE [q EXCEPT !.pc = "verify", !.hasLoginAttempts = TRUE,
                                    !.currentAttempts = n])
          /\ res' = NoRes
          /\ UNCHANGED <<store, redisUp, admin, observers>>
  /\ UNCHANGED notLimiter

\* await redisClient.setEx(blockKey, BLOCK_DURATION, 'blocked')
ChkSetBlock(q) ==
  /\ q.pc = "chkSetBlock"
  /\ IF ~redisUp THEN FailOpen(q)
     ELSE /\ blockTtl' = [blockTtl EXCEPT ![q.identifier] = BlockTtlWritten]
          /\ Goes(q, [q EXCEPT !.pc = "chkDel"])
          /\ res' = NoRes
          /\ UNCHANGED <<attemptVal, attemptTtl, redisUp, admin, observers>>
  /\ UNCHANGED notLimiter

\* await redisClient.del(key); return res.status(429)...
ChkDelCount(q) ==
  /\ q.pc = "chkDel"
  /\ IF ~redisUp THEN FailOpen(q)
     ELSE /\ DelAttempts(q.identifier)
          /\ CounterReset(q.identifier, inflight (-) SetToBag({q}))
          /\ Leaves(q)
          /\ res' = LoginResponse(q, 429, NoInfo, FALSE)
          /\ UNCHANGED <<blockTtl, redisUp, admin, lastReset>>
  /\ UNCHANGED notLimiter

\* ---------------------------------------------------- the login handler
\* Mutant: a failed credential check is answered 401 without recordFailedAttempt.
VerifySkipsRecord(q) ==
  /\ q.pc = "verify"
  /\ \E c \in Creds :
       IF c # "ok"
       THEN /\ Leaves(q)
            /\ res' = LoginResponse([q EXCEPT !.cred = c],
                                    IF c = "invalid" THEN 400 ELSE 401, NoInfo, FALSE)
       ELSE /\ Goes(q, [q EXCEPT !.cred = c, !.pc = "clear"])
            /\ res' = NoRes
  /\ UNCHANGED <<store, redisUp, admin, observers>>
  /\ UNCHANGED notLimiter

\* validationResult(req); User.findOne({ email }); bcrypt.compare(...)
Verify(q) ==
  /\ q.pc = "verify"
  /\ \E c \in Creds :
       IF c = "invalid"
       THEN /\ Leaves(q)
            /\ res' = LoginResponse([q EXCEPT !.cred = c], 400, NoInfo, FALSE)
       ELSE /\ Goes(q, [q EXCEPT !.cred = c,
                                 !.pc = IF c = "ok" THEN "clear" ELSE "recFail"])
            /\ res' = NoRes
  /\ UNCHANGED <<store, redisUp, admin, observers>>
  /\ UNCHANGED notLimiter

\* const attemptInfo = await recordFailedAttempt(req); return res.status(401)...
RecordFailedAttempt(q) ==
  /\ q.pc = "recFail"
  /\ Leaves(q)
  /\ IF q.hasLoginAttempts /\ redisUp
     THEN LET i == q.identifier
              n == NewAttemptCount(q.currentAttempts)
              rem == RemainingAttempts(n) IN
          /\ attemptVal' = [attemptVal EXCEPT ![i] = n]
          /\ attemptTtl' = [attemptTtl EXCEPT ![i] = AttemptTtlWritten]
          /\ res' = [LoginResponse(q, 401,
                        [set |-> TRUE, attempts |-> n, remaining |-> rem,
                         willBlock |-> rem <= 0], FALSE)
                     EXCEPT !.afterClear = (lastReset[i] = "success")]
          /\ failRun' = [failRun EXCEPT ![i] = IF RunClean(i) THEN Min(@ + 1, RunCap)
                                                               ELSE @]
          /\ maxInc' = [maxInc EXCEPT ![i] = IF RunClean(i) THEN Max(@, n) ELSE @]
          /\ lastReset' = [lastReset EXCEPT ![i] = "none"]
          /\ UNCHANGED <<blockTtl, redisUp, admin>>
     ELSE \* no req.loginAttempts (returns undefined) or the call rejected (null)
          /\ res' = LoginResponse(q, 401, NoInfo, FALSE)
          /\ UNCHANGED <<store, redisUp, admin, observers>>
  /\ UNCHANGED notLimiter

\* await clearFailedAttempts(req); req.session.user = ...; req.session.save(cb)
ClearFailedAttempts(q) ==
  /\ q.pc = "clear"
  /\ Leaves(q)
  /\ \E saved \in BOOLEAN :
       res' = LoginResponse(q, IF saved THEN 200 ELSE 500, NoInfo, saved)
  /\ IF q.hasLoginAttempts /\ redisUp
     THEN LET i == q.identifier IN
          /\ DelAttempts(i)
          /\ CounterReset(i, inflight (-) SetToBag({q}))
          /\ lastReset' = [lastReset EXCEPT ![i] = IF AttemptCount(i) > 0
                                                    THEN "success" ELSE @]
          /\ UNCHANGED <<blockTtl, redisUp, admin>>
     ELSE UNCHANGED <<store, redisUp, admin, observers>>
  /\ UNCHANGED notLimiter

\* ------------------------------------------------- POST /unblock-user
\* const { identifier } = req.body; const result = await unblockUser(identifier)
UnblockStart ==
  /\ ~AdminInFlight
  /\ \E i \in Idents : admin' = [pc |-> "delKey", identifier |-> i,
                                  wasBlocked |-> blockTtl[i] > 0]
  /\ res' = NoRes
  /\ UNCHANGED <<store, redisUp, inflight, observers>>
  /\ UNCHANGED notLimiter

\* if (!identifier) return res.status(400)
UnblockNoIdentifier ==
  /\ ~AdminInFlight
  /\ res # [from |-> "admin", status |-> 400, identifier |-> 0]
  /\ res' = [from |-> "admin", status |-> 400, identifier |-> 0]
  /\ UNCHANGED <<store, redisUp, inflight, admin, observers>>
  /\ UNCHANGED notLimiter

\* unblockUser: await redisClient.del(key)
UnblockDelKey ==
  /\ admin.pc = "delKey"
  /\ IF redisUp
     THEN /\ DelAttempts(admin.identifier)
          /\ CounterReset(admin.identifier, inflight)
          /\ admin' = [admin EXCEPT !.pc = "delBlock"]
          /\ res' = NoRes
          /\ UNCHANGED <<blockTtl, redisUp, inflight, lastReset>>
     ELSE /\ admin' = IdleAdmin
          /\ res' = [from |-> "admin", status |-> 500, identifier |-> admin.identifier]
          /\ UNCHANGED <<store, redisUp, inflight, observers>>
  /\ UNCHANGED notLimiter

\* unblockUser: await redisClient.del(blockKey); return true
UnblockDelBlock ==
  /\ admin.pc = "delBlock"
  /\ admin' = IdleAdmin
  /\ IF redisUp
     THEN /\ blockTtl' = [blockTtl EXCEPT ![admin.identifier] = 0]
          /\ res' = [from |-> "admin", status |-> 200, identifier |-> admin.identifier]
          /\ lastReset' = [lastReset EXCEPT ![admin.identifier] =
                               IF admin.wasBlocked THEN "unblock" ELSE @]
          /\ UNCHANGED <<attemptVal, attemptTtl, redisUp, inflight, failRun, maxInc>>
     ELSE /\ res' = [from |-> "admin", status |-> 500, identifier |-> admin.identifier]
          /\ UNCHANGED <<store, redisUp, inflight, observers>>
  /\ UNCHANGED notLimiter

\* ------------------------------------------------------------ environment
\* TickSeconds pass: every TTL runs down, a key at 0 is expired.
Expire(ttl) == Max(0, ttl - TickSeconds)

Expires(i) == attemptTtl[i] > 0 /\ Expire(attemptTtl[i]) = 0

Tick ==
  /\ \E i \in Spellings : attemptTtl[i] > 0 \/ blockTtl[i] > 0
  /\ attemptTtl' = [i \in Spellings |-> Expire(attemptTtl[i])]
  /\ attemptVal' = [i \in Spellings |-> IF Expire(attemptTtl[i]) = 0 THEN 0 ELSE attemptVal[i]]
  /\ blockTtl' = [i \in Spellings |-> Expire(blockTtl[i])]
  /\ failRun' = [i \in Spellings |->
                   IF Expires(i) THEN (IF NoLoginFor(i, inflight) THEN 0 ELSE -1)
                   ELSE failRun[i]]
  /\ maxInc' = [i \in Spellings |-> IF Expires(i) THEN 0 ELSE maxInc[i]]
  /\ res' = NoRes
  /\ UNCHANGED <<redisUp, inflight, admin, lastReset>>
  /\ UNCHANGED notLimiter

\* The Redis connection drops / comes back (client.on('error'), reconnect).
RedisDown ==
  /\ redisUp
  /\ redisUp' = FALSE
  /\ res' = NoRes
  /\ UNCHANGED <<store, inflight, admin, observers>>
  /\ UNCHANGED notLimiter

RedisBack ==
  /\ ~redisUp
  /\ redisUp' = TRUE
  /\ res' = NoRes
  /\ UNCHANGED <<store, inflight, admin, observers>>
  /\ UNCHANGED notLimiter

\* ---------------------------------------------------------- specifications
Handlers ==
  \/ \E q \in Requests : ChkGetBlock(q)
  \/ \E q \in Requests : ChkTtl(q)
  \/ \E q \in Requests : ChkGetCount(q)
  \/ \E q \in Requests : ChkSetBlock(q)
  \/ \E q \in Requests : ChkDelCount(q)
  \/ \E q \in Requests : Verify(q)
  \/ \E q \in Requests : RecordFailedAttempt(q)
  \/ \E q \in Requests : ClearFailedAttempts(q)
  \/ UnblockNoIdentifier
  \/ UnblockDelKey
  \/ UnblockDelBlock
  \/ Tick
  \/ RedisDown
  \/ RedisBack

\* The server: requests overlap freely.
Next ==
  \/ StartLogin
  \/ UnblockStart
  \/ Handlers

Spec == Init /\ [][Next]_vars

\* One request at a time: a request is sent only after the previous answer.
Quiet == inflight = EmptyBag /\ ~AdminInFlight

SeqStartLogin == Quiet /\ StartLogin

SeqUnblockStart == Quiet /\ UnblockStart

NextSeq ==
  \/ SeqStartLogin
  \/ SeqUnblockStart
  \/ Handlers

SpecSeq == Init /\ [][NextSeq]_vars

\* One login at a time within one attempt window, the email written either
\* way, Redis up and no administrator at work.
SpellStartLogin == Quiet /\ StartLoginFrom(Spellings)

NextSpell ==
  \/ SpellStartLogin
  \/ \E q \in Requests : ChkGetBlock(q)
  \/ \E q \in Requests : ChkTtl(q)
  \/ \E q \in Requests : ChkGetCount(q)
  \/ \E q \in Requests : ChkSetBlock(q)
  \/ \E q \in Requests : ChkDelCount(q)
  \/ \E q \in Requests : Verify(q)
  \/ \E q \in Requests : RecordFailedAttempt(q)
  \/ \E q \in Requests : ClearFailedAttempts(q)

SpecSpell == Init /\ [][NextSpell]_vars

\* ------------------------------------------------ JavaScript Number values
\* A Number is an IEEE 754 double.  Its magnitude is kept as an exact natural
\* number m (little-endian digits of base LimbBase, no leading zero digit)
\* scaled by a power of two: the value is (-1)^neg * m * 2^e with m < 2^53.
LimbBits == 15
LimbBase == 2^LimbBits
MantissaBits == 53

Pow2(k) == 2^k

RECURSIVE BigNorm(_)
BigNorm(a) == IF a # << >> /\ a[Len(a)] = 0 THEN BigNorm(SubSeq(a, 1, Len(a) - 1)) ELSE a

RECURSIVE BigFromInt(_)
BigFromInt(n) == IF n = 0 THEN << >> ELSE <<n % LimbBase>> \o BigFromInt(n \div LimbBase)

RECURSIVE BigToInt(_)
BigToInt(a) == IF a = << >> THEN 0 ELSE a[1] + LimbBase * BigToInt(Tail(a))

Limb(a, k) == IF k <= Len(a) THEN a[k] ELSE 0

RECURSIVE BigAddFrom(_, _, _, _)
BigAddFrom(a, b, k, carry) ==
  IF k > Len(a) /\ k > Len(b)
  THEN (IF carry = 0 THEN << >> ELSE <<carry>>)
  ELSE LET s == Limb(a, k) + Limb(b, k) + carry IN
       <<s % LimbBase>> \o BigAddFrom(a, b, k + 1, s \div LimbBase)

BigAdd(a, b) == BigAddFrom(a, b, 1, 0)

\* a - b for a >= b
RECURSIVE BigSubFrom(_, _, _, _)
BigSubFrom(a, b, k, borrow) ==
  IF k > Len(a) THEN << >>
  ELSE LET d == Limb(a, k) - Limb(b, k) - borrow IN
       <<d % LimbBase>> \o BigSubFrom(a, b, k + 1, IF d < 0 THEN 1 ELSE 0)

BigSub(a, b) == BigNorm(BigSubFrom(a, b, 1, 0))

\* -1, 0, 1 as a < b, a = b, a > b
RECURSIVE BigCmpFrom(_, _, _)
BigCmpFrom(a, b, k) ==
  IF k = 0 THEN 0
  ELSE IF a[k] < b[k] THEN -1
  ELSE IF a[k] > b[k] THEN 1
  ELSE BigCmpFrom(a, b, k - 1)

BigCmp(a, b) ==
  IF Len(a) < Len(b) THEN -1
  ELSE IF Len(a) > Len(b) THEN 1
  ELSE BigCmpFrom(a, b, Len(a))

\* a * d for 0 <= d < LimbBase
RECURSIVE BigMulSmallFrom(_, _, _, _)
BigMulSmallFrom(a, d, k, carry) ==
  IF k > Len(a) THEN (IF carry = 0 THEN << >> ELSE <<carry>>)
  ELSE LET p == a[k] * d + carry IN
       <<p % LimbBase>> \o BigMulSmallFrom(a, d, k + 1, p \div LimbBase)

BigMulSmall(a, d) == IF d = 0 THEN << >> ELSE BigMulSmallFrom(a, d, 1, 0)

\* a * LimbBase^n
BigShiftLimbs(a, n) == IF a = << >> THEN a ELSE [k \in 1..n |-> 0] \o a

RECURSIVE BigMulFrom(_, _, _)
BigMulFrom(a, b, k) ==
  IF k > Len(b) THEN << >>
  ELSE BigAdd(BigShiftLimbs(BigMulSmall(a, b[k]), k - 1), BigMulFrom(a, b, k + 1))

BigMul(a, b) == BigMulFrom(a, b, 1)

\* <<quotient, remainder>> of a by d, 0 < d < LimbBase
RECURSIVE BigDivSmallFrom(_, _, _, _)
BigDivSmallFrom(a, d, k, rem) ==
  IF k = 0 THEN [q |-> << >>, r |-> rem]
  ELSE LET cur == rem * LimbBase + a[k]
           rest == BigDivSmallFrom(a, d, k - 1, cur % d) IN
       [q |-> rest.q \o <<cur \div d>>, r |-> rest.r]

BigDivSmall(a, d) ==
  LET x == BigDivSmallFrom(a, d, Len(a), 0) IN [q |-> BigNorm(x.q), r |-> x.r]

\* a * 2^k
BigShl(a, k) == BigShiftLimbs(BigMulSmall(a, Pow2(k % LimbBits)), k \div LimbBits)

\* floor(a / 2^k)
BigShr(a, k) ==
  LET n == k \div LimbBits
      d == Pow2(k % LimbBits) IN
  IF n >= Len(a) THEN << >>
  ELSE BigDivSmall(SubSeq(a, n + 1, Len(a)), d).q

\* a mod 2^k
BigLow(a, k) == BigSub(a, BigShl(BigShr(a, k), k))

RECURSIVE IntBitLen(_)
IntBitLen(n) == IF n = 0 THEN 0 ELSE 1 + IntBitLen(n \div 2)

BigBitLen(a) == IF a = << >> THEN 0 ELSE (Len(a) - 1) * LimbBits + IntBitLen(a[Len(a)])

BigIsOdd(a) == a # << >> /\ a[1] % 2 = 1

BigOne == <<1>>

\* The double nearest to (-1)^neg * (n + s) * 2^e where 0 < s < 1 if sticky,
\* s = 0 otherwise; ties go to the even mantissa.
RoundToDouble(neg, n, e, sticky) ==
  LET len == BigBitLen(n)
      cut == len - MantissaBits IN
  IF cut <= 0 THEN [neg |-> neg, m |-> n, e |-> e]
  ELSE LET q == BigShr(n, cut)
           r == BigLow(n, cut)
           half == BigShl(BigOne, cut - 1)
           c == BigCmp(r, half)
           up == c > 0 \/ (c = 0 /\ (sticky \/ BigIsOdd(q))) IN
       [neg |-> neg, m |-> IF up THEN BigAdd(q, BigOne) ELSE q, e |-> e + cut]

DZero == [neg |-> FALSE, m |-> << >>, e |-> 0]
DIsZero(x) == x.m = << >>

Abs(n) == IF n < 0 THEN -n ELSE n

\* an integer as a Number
DFromInt(n) == [neg |-> n < 0, m |-> BigFromInt(Abs(n)), e |-> 0]

RatioBits == 75

\* the decimal literal n/d read as a Number (correctly rounded)
DFromRatio(n, d) ==
  LET x == BigDivSmall(BigShl(BigFromInt(Abs(n)), RatioBits), d) IN
  IF n = 0 THEN DZero ELSE RoundToDouble(n < 0, x.q, -RatioBits, x.r # 0)

\* x * y
DMul(x, y) ==
  IF DIsZero(x) \/ DIsZero(y) THEN DZero
  ELSE RoundToDouble(x.neg # y.neg, BigMul(x.m, y.m), x.e + y.e, FALSE)

\* x + y
DAdd(x, y) ==
  IF DIsZero(x) THEN y
  ELSE IF DIsZero(y) THEN x
  ELSE LET e == IF x.e < y.e THEN x.e ELSE y.e
           a == BigShl(x.m, x.e - e)
           b == BigShl(y.m, y.e - e)
           c == BigCmp(a, b) IN
       IF x.neg = y.neg THEN RoundToDouble(x.neg, BigAdd(a, b), e, FALSE)
       ELSE IF c = 0 THEN DZero
       ELSE IF c > 0 THEN RoundToDouble(x.neg, BigSub(a, b), e, FALSE)
       ELSE RoundToDouble(y.neg, BigSub(b, a), e, FALSE)

DNeg(x) == IF DIsZero(x) THEN x ELSE [x EXCEPT !.neg = ~x.neg]

\* x >= y
DGeq(x, y) == LET d == DAdd(x, DNeg(y)) IN DIsZero(d) \/ ~d.neg

\* Math.round(x): the integer floor(x + 1/2)
JsRound(x) ==
  IF DIsZero(x) THEN 0
  ELSE IF x.e >= 0 THEN (IF x.neg THEN -1 ELSE 1) * BigToInt(BigShl(x.m, x.e))
  ELSE LET k == -x.e
           half == BigShl(BigOne, k - 1) IN
       IF ~x.neg THEN BigToInt(BigShr(BigAdd(x.m, half), k))
       ELSE IF BigCmp(x.m, half) <= 0 THEN 0
       ELSE -BigToInt(BigShr(BigAdd(BigSub(x.m, half), BigSub(BigShl(BigOne, k), BigOne)), k))

\* ------------------------------------------------- calculateCartTotals
\* A quantity as JavaScript holds it: a number, or a string of decimal digits.
Num(n) == [str |-> FALSE, num |-> n, text |-> << >>]
Str(digits) == [str |-> TRUE, num |-> 0, text |-> digits]

RECURSIVE DigitsValue(_)
DigitsValue(d) ==
  IF d = << >> THEN 0 ELSE 10 * DigitsValue(SubSeq(d, 1, Len(d) - 1)) + d[Len(d)]

\* the numeric conversion the operator * applies to an operand
ToNumber(v) == IF v.str THEN DigitsValue(v.text) ELSE v.num

\* A price is written in the data as a decimal with two places; it is kept
\* here in cents and read as the Number nearest to cents / 100.
PriceAsNumber(cents) == DFromRatio(cents, 100)

\* const taxRate = 0.085
TaxRate == DFromRatio(85, 1000)

\* const shippingThreshold = 75
ShippingThreshold == DFromInt(75)

\* const shippingCost = 9.99
ShippingCost == DFromRatio(999, 100)

Hundred == DFromInt(100)

\* Math.round(x * 100) / 100, as the number of cents of the figure reported
RoundToCents(x) == JsRound(DMul(x, Hundred))

\* items.reduce((sum, item) => sum + (item.price * item.quantity), 0)
RECURSIVE SubtotalFrom(_, _, _)
SubtotalFrom(items, k, sum) ==
  IF k > Len(items) THEN sum
  ELSE SubtotalFrom(items, k + 1,
                    DAdd(sum, DMul(PriceAsNumber(items[k].price),
                                   DFromInt(ToNumber(items[k].quantity)))))

\* subtotal >= shippingThreshold
FreeShipping(subtotal) == DGeq(subtotal, ShippingThreshold)

calculateCartTotals(items) ==
  LET subtotal == SubtotalFrom(items, 1, DZero)
      tax == DMul(subtotal, TaxRate)
      free == FreeShipping(subtotal)
      shipping == IF free THEN DZero ELSE ShippingCost
      total == DAdd(DAdd(subtotal, tax), shipping) IN
  [returned |-> TRUE,
   subtotal |-> RoundToCents(subtotal),
   tax |-> RoundToCents(tax),
   shipping |-> RoundToCents(shipping),
   total |-> RoundToCents(total),
   freeShipping |-> free,
   amountForFreeShipping |->
      IF free THEN 0 ELSE RoundToCents(DAdd(ShippingThreshold, DNeg(subtotal)))]

\* ------------------------------------------- the calculator called directly
MaxLines == 2           \* line items in one call

\* Unit prices (in cents) and quantities a caller may hand over.
Prices == {-500, 0, 30, 1000, 2490, 3000, 5000, 5500}
Quantities == {-1, 0, 1, 2, 3}

\* The caller puts one more line item into the array.
PushItem ==
  /\ result = NoResult
  /\ Len(lineItems) < MaxLines
  /\ \E p \in Prices, q \in Quantities :
       lineItems' = Append(lineItems, [price |-> p, quantity |-> Num(q)])
  /\ UNCHANGED result
  /\ UNCHANGED notCalc

\* calculateCartTotals(items)
CallCalculate ==
  /\ result = NoResult
  /\ result' = calculateCartTotals(lineItems)
  /\ UNCHANGED lineItems
  /\ UNCHANGED notCalc

\* The caller starts over with an empty array.
NewCall ==
  /\ result # NoResult
  /\ lineItems' = << >>
  /\ result' = NoResult
  /\ UNCHANGED notCalc

NextTotals ==
  \/ PushItem
  \/ CallCalculate
  \/ NewCall

SpecTotals == Init /\ [][NextTotals]_vars

\* ------------------------------------------------------------ the cart API
RECURSIVE NumText(_)
NumText(n) == IF n < 10 THEN <<n>> ELSE NumText(n \div 10) \o <<n % 10>>

\* the string conversion the operator + applies to an operand (no negative
\* quantity reaches it)
Text(v) == IF v.str THEN v.text ELSE NumText(v.num)

\* a + b: addition of two numbers, concatenation as soon as one is a string
JsPlus(a, b) == IF a.str \/ b.str THEN Str(Text(a) \o Text(b)) ELSE Num(a.num + b.num)

\* express-validator's isInt({min, max}): the value, written as a string, is a
\* decimal integer without leading zeros in the range.  It does not convert.
IsInt(v, min, max) ==
  IF v.str
    THEN /\ v.text # << >>
         /\ v.text[1] # 0 \/ Len(v.text) = 1
         /\ DigitsValue(v.text) \in min..max
    ELSE v.num \in min..max

\* items.reduce((sum, item) => sum + item.quantity, 0)
RECURSIVE ItemCountFrom(_, _, _)
ItemCountFrom(items, k, sum) ==
  IF k > Len(items) THEN sum ELSE ItemCountFrom(items, k + 1, JsPlus(sum, items[k].quantity))

updateCartCalculations(cart) ==
  [cart EXCEPT !.totals = calculateCartTotals(cart.items),
               !.itemCount = ItemCountFrom(cart.items, 1, Num(0))]

createNewCart(sessionId) ==
  [sessionId |-> sessionId, items |-> << >>,
   totals |-> calculateCartTotals(<< >>), itemCount |-> Num(0)]

\* carts.findIndex(c => c.sessionId === sessionId), counted from 1; 0 if none
CartIndex(carts, sessionId) ==
  IF \E k \in 1..Len(carts) : carts[k].sessionId = sessionId
    THEN CHOOSE k \in 1..Len(carts) :
           /\ carts[k].sessionId = sessionId
           /\ \A j \in 1..(k - 1) : carts[j].sessionId # sessionId
    ELSE 0

\* cart.items.findIndex(item => item.productId === productId), counted from 1
ItemIndex(items, productId) ==
  IF \E k \in 1..Len(items) : items[k].productId = productId
    THEN CHOOSE k \in 1..Len(items) :
           /\ items[k].productId = productId
           /\ \A j \in 1..(k - 1) : items[j].productId # productId
    ELSE 0

\* products.find(p => p.id === productId) finds an entry
Listed(products, productId) == productId \in DOMAIN products /\ products[productId].listed

\* new Error(message): the message is converted to a string
ErrorMessage(v) ==
  CASE v.kind = "number" -> StringValue(ToString(v.num))
    [] v.kind = "string" -> v
    [] OTHER -> StringValue("")

\* const createError = (message, statusCode = 500) => { ... }
createError(message, statusCode) ==
  [name |-> "Error", message |-> ErrorMessage(message),
   statusCode |-> IF statusCode.kind = "undefined" THEN NumberValue(500) ELSE statusCode]

\* an error raised by a library call (a failed query, a rejected Redis call)
LibraryError(message) == [name |-> "Error", message |-> StringValue(message), statusCode |-> Undefined]

\* a || b
Truthy(v) ==
  CASE v.kind = "number" -> v.num # 0
    [] v.kind = "string" -> v.text # ""
    [] OTHER -> FALSE
OrElse(a, b) == IF Truthy(a) THEN a ELSE b

\* The status the client receives from res.status(statusCode).json(...): a
\* statusCode that is no integer from 100 to 999 makes the call throw inside
\* the error handler, and Express's final handler then answers 500.
StatusSent(statusCode) ==
  IF statusCode.kind = "number" /\ statusCode.num \in 100..999 THEN statusCode.num ELSE 500

\* errorHandler(error, req, res, next): the status it answers with
errorHandler(error) ==
  LET statusCode == OrElse(error.statusCode, NumberValue(500)) IN
  CASE error.name \in {"ValidationError", "CastError"} -> 400
    [] error.name \in {"JsonWebTokenError", "TokenExpiredError"} -> 401
    [] OTHER -> StatusSent(statusCode)

\* What a route has decided once its reads are done: an error response, a
\* plain answer, or the cart (at place k of the array) it has changed and is
\* about to recalculate and save.
NoCart == [sessionId |-> 0, items |-> << >>, totals |-> NoResult, itemCount |-> Num(0)]
\* throw createError(status, message): the arguments are passed in this order
\* at every call; asyncHandler hands the error to errorHandler, which answers.
Fail(status, message) ==
  LET error == createError(NumberValue(status), StringValue(message)) IN
  [write |-> FALSE, status |-> errorHandler(error), error |-> error.message.text,
   k |-> 0, cart |-> NoCart]
Reply == [write |-> FALSE, status |-> 200, error |-> "none", k |-> 0, cart |-> NoCart]
Save(k, cart) == [write |-> TRUE, status |-> 200, error |-> "none", k |-> k, cart |-> cart]

\* GET /:sessionId and GET /:sessionId/summary
GetCart(q) ==
  IF CartIndex(q.carts, q.sessionId) = 0 THEN Fail(404, "Cart not found") ELSE Reply

\* Mutant: the check of the new quantity against 99 is missing.
AddItemNoLimit(q, products) ==
  LET k == CartIndex(q.carts, q.sessionId)
      cart == q.carts[k]
      quantity == IF q.hasQuantity THEN q.quantity ELSE Num(1)
      i == ItemIndex(cart.items, q.productId)
      cartItem == [productId |-> q.productId, price |-> products[q.productId].price,
                   quantity |-> quantity] IN
  IF k = 0 THEN Fail(404, "Cart not found")
  ELSE IF ~Listed(products, q.productId) THEN Fail(404, "Product not found")
  ELSE IF ~products[q.productId].inStock THEN Fail(400, "Product is out of stock")
  ELSE IF i > 0
    THEN Save(k, [cart EXCEPT !.items[i].quantity = JsPlus(@, quantity)])
    ELSE Save(k, [cart EXCEPT !.items = Append(@, cartItem)])

\* POST /:sessionId/items
AddItem(q, products) ==
  LET k == CartIndex(q.carts, q.sessionId)
      cart == q.carts[k]
      quantity == IF q.hasQuantity THEN q.quantity ELSE Num(1)
      i == ItemIndex(cart.items, q.productId)
      newQuantity == JsPlus(cart.items[i].quantity, quantity)
      cartItem == [productId |-> q.productId, price |-> products[q.productId].price,
                   quantity |-> quantity] IN
  IF k = 0 THEN Fail(404, "Cart not found")
  ELSE IF ~Listed(products, q.productId) THEN Fail(404, "Product not found")
  ELSE IF ~products[q.productId].inStock THEN Fail(400, "Product is out of stock")
  ELSE IF i > 0
    THEN IF ToNumber(newQuantity) > 99
           THEN Fail(400, "Maximum quantity per item is 99")
           ELSE Save(k, [cart EXCEPT !.items[i].quantity = newQuantity])
    ELSE Save(k, [cart EXCEPT !.items = Append(@, cartItem)])

\* PUT /:sessionId/items/:productId
UpdateItem(q) ==
  LET k == CartIndex(q.carts, q.sessionId)
      cart == q.carts[k]
      i == ItemIndex(cart.items, q.productId) IN
  IF k = 0 THEN Fail(404, "Cart not found")
  ELSE IF i = 0 THEN Fail(404, "Item not found in cart")
  ELSE Save(k, [cart EXCEPT !.items[i].quantity = q.quantity])

\* cart.items.splice(itemIndex, 1)
Splice(items, i) == SubSeq(items, 1, i - 1) \o SubSeq(items, i + 1, Len(items))

\* DELETE /:sessionId/items/:productId
RemoveItem(q) ==
  LET k == CartIndex(q.carts, q.sessionId)
      cart == q.carts[k]
      i == ItemIndex(cart.items, q.productId) IN
  IF k = 0 THEN Fail(404, "Cart not found")
  ELSE IF i = 0 THEN Fail(404, "Item not found in cart")
  ELSE Save(k, [cart EXCEPT !.items = Splice(@, i)])

\* DELETE /:sessionId/clear
ClearCart(q) ==
  LET k == CartIndex(q.carts, q.sessionId) IN
  IF k = 0 THEN Fail(404, "Cart not found")
  ELSE Save(k, [q.carts[k] EXCEPT !.items = << >>])

\* The validation loop: an item whose product is gone or out of stock is
\* removed, an item whose price changed takes the new price.
RECURSIVE ValidatedItems(_, _)
ValidatedItems(items, products) ==
  IF items = << >> THEN << >>
  ELSE LET item == Head(items)
           rest == ValidatedItems(Tail(items), products) IN
       IF ~Listed(products, item.productId) THEN rest
       ELSE IF ~products[item.productId].inStock THEN rest
       ELSE IF products[item.productId].price # item.price
         THEN <<[item EXCEPT !.price = products[item.productId].price]>> \o rest
         ELSE <<item>> \o rest

\* POST /:sessionId/validate (hasChanges is set exactly when an item was
\* removed or repriced)
ValidateCart(q, products) ==
  LET k == CartIndex(q.carts, q.sessionId)
      cart == q.carts[k]
      items == ValidatedItems(cart.items, products)
      hasChanges == items # cart.items IN
  IF k = 0 THEN Fail(404, "Cart not found")
  ELSE IF hasChanges THEN Save(k, [cart EXCEPT !.items = items])
  ELSE Reply

Route(q, products) ==
  CASE q.op \in {"get", "summary"} -> GetCart(q)
    [] q.op = "add" -> AddItem(q, products)
    [] q.op = "update" -> UpdateItem(q)
    [] q.op = "remove" -> RemoveItem(q)
    [] q.op = "clear" -> ClearCart(q)
    [] q.op = "validate" -> ValidateCart(q, products)

\* The carts array a handler writes.  POST /create pushes the new cart; the
\* other routes end with updateCartCalculations(cart); carts[cartIndex] = cart.
CartsToWrite(q, out) ==
  IF q.op = "create"
    THEN Append(q.carts, createNewCart(q.sessionId))
    ELSE [q.carts EXCEPT ![out.k] = updateCartCalculations(out.cart)]

\* The validators in front of a route.  A session id that is no UUID is
\* written 0.
ValidRequest(q) ==
  /\ q.op # "create" => q.sessionId # 0
  /\ q.op \in {"add", "update", "remove"} => IsInt(Num(q.productId), 1, q.productId)
  /\ q.op = "add" /\ q.hasQuantity => IsInt(q.quantity, 1, 99)
  /\ q.op = "update" => q.hasQuantity /\ IsInt(q.quantity, 1, 99)

\* The requests a client sends.
Call(op, sessionId, productId, hasQuantity, quantity) ==
  [pc |-> "readCarts", op |-> op, sessionId |-> sessionId, productId |-> productId,
   hasQuantity |-> hasQuantity, quantity |-> quantity, status |-> 0, carts |-> << >>]

SessionParams == Sessions \cup {0}

\* Quantities in a request body: numbers, and a numeric string.
BodyQuantities == {Num(0), Num(1), Num(99), Str(<<5>>)}

CartCalls ==
  {Call(op, s, 0, FALSE, Num(0)) : op \in {"get", "summary", "clear", "validate"},
                                   s \in SessionParams}
  \cup {Call("remove", s, p, FALSE, Num(0)) : s \in SessionParams, p \in ProductIds}
  \cup {Call("add", s, p, FALSE, Num(0)) : s \in SessionParams, p \in ProductIds}
  \cup {Call(op, s, p, TRUE, n) : op \in {"add", "update"}, s \in SessionParams,
                                  p \in ProductIds, n \in BodyQuantities}

CartRespond(status, error) == cartRes' = [status |-> status, error |-> error]

\* A request arrives.  createNewCart() runs before the first await, so the
\* new session id is drawn here.
CartRequest ==
  /\ sent < MaxCartCalls
  /\ BagCardinality(cartInflight) < NumCartReqs
  /\ sent' = sent + 1
  /\ \/ /\ sessionsIssued < NumCarts
        /\ sessionsIssued' = sessionsIssued + 1
        /\ cartInflight' = cartInflight (+) SetToBag({Call("create", sessionsIssued + 1, 0, FALSE, Num(0))})
        /\ cartRes' = NoCartRes
     \/ /\ \E q \in CartCalls :
             IF ValidRequest(q)
               THEN /\ cartInflight' = cartInflight (+) SetToBag({q})
                    /\ cartRes' = NoCartRes
               ELSE /\ CartRespond(400, "Invalid request")
                    /\ UNCHANGED cartInflight
        /\ UNCHANGED sessionsIssued
  /\ UNCHANGED <<cartsFile, productsFile, edits>>
  /\ UNCHANGED notCart

\* The handler has made its last read: it runs up to its response or up to
\* its call of writeCarts.  read is the request with what it has read.
AfterReads(q, read) ==
  LET out == IF q.op = "create" THEN Save(0, NoCart) ELSE Route(read, productsFile) IN
  IF out.write
    THEN /\ cartInflight' = (cartInflight (-) SetToBag({q})) (+)
                            SetToBag({[read EXCEPT !.pc = "writeCarts",
                                                   !.status = IF q.op = "create" THEN 201 ELSE 200,
                                                   !.carts = CartsToWrite(read, out)]})
         /\ cartRes' = NoCartRes
    ELSE /\ cartInflight' = cartInflight (-) SetToBag({q})
         /\ CartRespond(out.status, out.error)

\* The request as it stands after the read it is waiting for.
HasRead(q) == IF q.pc = "readCarts" THEN [q EXCEPT !.carts = cartsFile] ELSE q

\* Only these two routes read products.json, after carts.json.
ReadsProducts(q) == q.op \in {"add", "validate"}

\* await readCarts() in a route that reads products.json next
ReadCarts(q) ==
  /\ q.pc = "readCarts" /\ ReadsProducts(q)
  /\ cartInflight' = (cartInflight (-) SetToBag({q})) (+)
                     SetToBag({[HasRead(q) EXCEPT !.pc = "readProducts"]})
  /\ cartRes' = NoCartRes
  /\ UNCHANGED <<cartsFile, productsFile, sessionsIssued, sent, edits>>
  /\ UNCHANGED notCart

\* The last read of a handler: await readCarts() in the routes that read only
\* carts.json, await readProducts() in the two others.
LastRead(q) ==
  /\ \/ q.pc = "readCarts" /\ ~ReadsProducts(q)
     \/ q.pc = "readProducts"
  /\ AfterReads(q, HasRead(q))
  /\ UNCHANGED <<cartsFile, productsFile, sessionsIssued, sent, edits>>
  /\ UNCHANGED notCart

\* await writeCarts(carts), then the success response
WriteCarts(q) ==
  /\ q.pc = "writeCarts"
  /\ cartsFile' = q.carts
  /\ cartInflight' = cartInflight (-) SetToBag({q})
  /\ CartRespond(q.status, "none")
  /\ UNCHANGED <<productsFile, sessionsIssued, sent, edits>>
  /\ UNCHANGED notCart

\* products.json is edited: a product is repriced, goes out of stock, or is
\* taken off the list.
CatalogEdit ==
  /\ edits < MaxEdits
  /\ edits' = edits + 1
  /\ \E p \in ProductIds :
       /\ productsFile[p].listed
       /\ \/ productsFile' = [productsFile EXCEPT ![p].price = NewPrice(p)]
          \/ productsFile' = [productsFile EXCEPT ![p].inStock = FALSE]
          \/ productsFile' = [productsFile EXCEPT ![p].listed = FALSE]
  /\ UNCHANGED <<cartsFile, cartInflight, cartRes, sessionsIssued, sent>>
  /\ UNCHANGED notCart

CartRequests == BagToSet(cartInflight)

\* One cart request at a time.
CartQuiet == cartInflight = EmptyBag

SeqCartRequest == CartQuiet /\ CartRequest

NextCart ==
  \/ SeqCartRequest
  \/ \E q \in CartRequests : ReadCarts(q)
  \/ \E q \in CartRequests : LastRead(q)
  \/ \E q \in CartRequests : WriteCarts(q)
  \/ CatalogEdit

SpecCart == Init /\ [][NextCart]_vars

\* The server: up to NumCartReqs cart requests in flight at once.
NextCartPar ==
  \/ CartRequest
  \/ \E q \in CartRequests : ReadCarts(q)
  \/ \E q \in CartRequests : LastRead(q)
  \/ \E q \in CartRequests : WriteCarts(q)
  \/ CatalogEdit

SpecCartPar == Init /\ [][NextCartPar]_vars

\* ------------------------------------------------------ the product cache
\* setEx(cacheKey, 120, ...) for the list, setEx(cacheKey, 300, ...) for a product
LIST_TTL == 120
PRODUCT_TTL == 300

CacheTickSeconds == LIST_TTL \div TicksPerListTtl

\* Mutant: every entry is stored for ten minutes.
TtlTenMinutes(key) == 10 * 60

TtlOf(key) == IF key = ProductKey THEN PRODUCT_TTL ELSE LIST_TTL

CacheRequests == BagToSet(cacheInflight)

CacheMove(q, pc) ==
  cacheInflight' = (cacheInflight (-) SetToBag({q})) (+) SetToBag({[q EXCEPT !.pc = pc]})

CacheLeaves(q) == cacheInflight' = cacheInflight (-) SetToBag({q})

\* The product writes that have arrived and not yet reached the database.
WritesToCome ==
  Cardinality({q \in CacheRequests : q.op # "get" /\ q.pc = "query"})

\* A request as it arrives.  Observers on it: version (the state of the table
\* its query saw or made) and since (the last change that had been answered
\* when it arrived).
ProductCall(op, pc, key) ==
  [op |-> op, pc |-> pc, key |-> key, version |-> 0, since |-> doneVersion]

\* What the client receives, and from where.
ProductResponse(q, source, status, age, version) ==
  [source |-> source, key |-> q.key, status |-> status, age |-> age,
   version |-> version, since |-> q.since]

\* GET /api/products or GET /api/products/:id arrives; POST, PUT or DELETE of a
\* product arrives.
ProductRequest ==
  /\ BagCardinality(cacheInflight) < NumCacheReqs
  /\ \/ \E k \in CacheKeys :
          /\ ProductCall("get", "cacheGet", k) \notin CacheRequests
          /\ cacheInflight' = cacheInflight (+) SetToBag({ProductCall("get", "cacheGet", k)})
     \/ \E op \in {"create", "update", "delete"} :
          /\ WritesToCome = 0 /\ dbVersion < MaxChanges
          /\ cacheInflight' = cacheInflight (+) SetToBag({ProductCall(op, "query", ProductKey)})
  /\ cacheRes' = NoCacheRes
  /\ UNCHANGED <<cache, dbVersion, doneVersion>>
  /\ UNCHANGED <<limiterVars, notCache>>

\* await redisClient.get(cacheKey): a hit is answered from the cache
CacheGet(q) ==
  /\ q.op = "get" /\ q.pc = "cacheGet"
  /\ IF cache[q.key].ttl > 0
       THEN /\ CacheLeaves(q)
            /\ cacheRes' = ProductResponse(q, "cache", 200, cache[q.key].age,
                                           cache[q.key].version)
       ELSE /\ CacheMove(q, "query")
            /\ cacheRes' = NoCacheRes
  /\ UNCHANGED <<cache, dbVersion, doneVersion>>
  /\ UNCHANGED <<limiterVars, notCache>>

\* await pool.query(...): a SELECT sees the table as it is, an INSERT, UPDATE
\* or DELETE changes it; with no such product the handler throws
\* createError(404, `Product with ID ${id} not found`)
DbQuery(q) ==
  /\ q.pc = "query"
  /\ \/ /\ q.op = "get"
        /\ cacheInflight' = (cacheInflight (-) SetToBag({q})) (+)
                            SetToBag({[q EXCEPT !.pc = "setEx", !.version = dbVersion]})
        /\ cacheRes' = NoCacheRes
        /\ UNCHANGED dbVersion
     \/ /\ q.op # "get"
        /\ dbVersion' = dbVersion + 1
        /\ cacheInflight' = (cacheInflight (-) SetToBag({q})) (+)
                            SetToBag({[q EXCEPT !.pc = IF q.op = "create" THEN "flushAll" ELSE "del",
                                                !.version = dbVersion + 1]})
        /\ cacheRes' = NoCacheRes
     \/ /\ q.key = ProductKey /\ q.op # "create"
        /\ CacheLeaves(q)
        /\ cacheRes' = ProductResponse(q, "db",
                          errorHandler(createError(NumberValue(404),
                                                   StringValue("Product not found"))),
                          0, dbVersion)
        /\ UNCHANGED dbVersion
  /\ UNCHANGED <<cache, doneVersion>>
  /\ UNCHANGED <<limiterVars, notCache>>

\* await redisClient.setEx(cacheKey, ttl, ...), then the response
CacheSetEx(q) ==
  /\ q.pc = "setEx"
  /\ cache' = [cache EXCEPT ![q.key] = [ttl |-> TtlOf(q.key), age |-> 0, version |-> q.version]]
  /\ CacheLeaves(q)
  /\ cacheRes' = ProductResponse(q, "db", 200, 0, q.version)
  /\ UNCHANGED <<dbVersion, doneVersion>>
  /\ UNCHANGED <<limiterVars, notCache>>

\* await redisClient.del(`product:${id}`)
CacheDel(q) ==
  /\ q.pc = "del"
  /\ cache' = [cache EXCEPT ![q.key] = NoEntry]
  /\ CacheMove(q, "flushAll")
  /\ cacheRes' = NoCacheRes
  /\ UNCHANGED <<dbVersion, doneVersion>>
  /\ UNCHANGED <<limiterVars, notCache>>

\* redisClient.flushAll(): no key is left
Flushed == [k \in CacheKeys |-> NoEntry]

\* await redisClient.flushAll(), then the response: every key of the Redis
\* database goes, the login limiter's among them.
CacheFlushAll(q) ==
  /\ q.pc = "flushAll"
  /\ cache' = Flushed
  /\ attemptVal' = [i \in Spellings |-> 0]
  /\ attemptTtl' = [i \in Spellings |-> 0]
  /\ blockTtl' = [i \in Spellings |-> 0]
  /\ CacheLeaves(q)
  /\ cacheRes' = ProductResponse(q, "db", IF q.op = "create" THEN 201 ELSE 200, 0, q.version)
  /\ doneVersion' = IF q.version > doneVersion THEN q.version ELSE doneVersion
  /\ UNCHANGED dbVersion
  /\ UNCHANGED <<redisUp, inflight, admin, res, observers>>
  /\ UNCHANGED notCache

\* Time passes: Redis counts the entries' TTLs down and drops what expired.
CacheAfter(entry) ==
  IF entry.ttl > CacheTickSeconds
    THEN [entry EXCEPT !.ttl = @ - CacheTickSeconds, !.age = @ + CacheTickSeconds]
    ELSE NoEntry

CacheTick ==
  /\ \E k \in CacheKeys : cache[k].ttl > 0
  /\ cache' = [k \in CacheKeys |-> CacheAfter(cache[k])]
  /\ cacheRes' = NoCacheRes
  /\ UNCHANGED <<cacheInflight, dbVersion, doneVersion>>
  /\ UNCHANGED <<limiterVars, notCache>>

NextCache ==
  \/ ProductRequest
  \/ \E q \in CacheRequests : CacheGet(q)
  \/ \E q \in CacheRequests : DbQuery(q)
  \/ \E q \in CacheRequests : CacheSetEx(q)
  \/ \E q \in CacheRequests : CacheDel(q)
  \/ \E q \in CacheRequests : CacheFlushAll(q)
  \/ CacheTick

SpecCache == Init /\ [][NextCache]_vars

\* The login limiter and the product routes on the one Redis client, one
\* request at a time, Redis up and the cache entries not yet expired.
SharedQuiet == Quiet /\ cacheInflight = EmptyBag

SharedStartLogin == SharedQuiet /\ StartLogin

SharedUnblockStart == SharedQuiet /\ UnblockStart

SharedProductRequest == SharedQuiet /\ ProductRequest

NextShared ==
  \/ SharedStartLogin
  \/ SharedUnblockStart
  \/ SharedProductRequest
  \/ \E q \in Requests : ChkGetBlock(q)
  \/ \E q \in Requests : ChkTtl(q)
  \/ \E q \in Requests : ChkGetCount(q)
  \/ \E q \in Requests : ChkSetBlock(q)
  \/ \E q \in Requests : ChkDelCount(q)
  \/ \E q \in Requests : Verify(q)
  \/ \E q \in Requests : RecordFailedAttempt(q)
  \/ \E q \in Requests : ClearFailedAttempts(q)
  \/ UnblockNoIdentifier
  \/ UnblockDelKey
  \/ UnblockDelBlock
  \/ Tick
  \/ \E q \in CacheRequests : CacheGet(q)
  \/ \E q \in CacheRequests : DbQuery(q)
  \/ \E q \in CacheRequests : CacheSetEx(q)
  \/ \E q \in CacheRequests : CacheDel(q)
  \/ \E q \in CacheRequests : CacheFlushAll(q)

SpecShared == Init /\ [][NextShared]_vars

\* ------------------------------------------------------- the browser's cart
\* cart.find(item => item.id === id), as a place counted from 1; 0 if none
CartPlace(items, id) ==
  IF \E k \in 1..Len(items) : items[k].id = id
    THEN CHOOSE k \in 1..Len(items) :
           items[k].id = id /\ \A j \in 1..(k - 1) : items[j].id # id
    ELSE 0

\* existingItem.quantity += quantity, or cart.push({...})
WithAdded(items, id, quantity) ==
  IF CartPlace(items, id) > 0
    THEN [items EXCEPT ![CartPlace(items, id)].quantity = @ + quantity]
    ELSE Append(items, [id |-> id, quantity |-> quantity])

\* cart.splice(itemIndex, 1)
WithoutPlace(items, k) == SubSeq(items, 1, k - 1) \o SubSeq(items, k + 1, Len(items))

QuantityOf(items, id) == IF CartPlace(items, id) = 0 THEN 0 ELSE items[CartPlace(items, id)].quantity

\* localStorage.setItem(CART_STORAGE_KEY, JSON.stringify(cart))
saveCartToStorage(items) == localStorage' = items

\* addToCart(productId, quantity) for a product that is found and in stock
addToCart ==
  /\ \E n \in 1..NumShopItems, quantity \in 1..MaxQuantity :
       /\ QuantityOf(memoryCart, ProductItem(n)) + quantity <= MaxQuantity
       /\ memoryCart' = WithAdded(memoryCart, ProductItem(n), quantity)
       /\ saveCartToStorage(memoryCart')
  /\ UNCHANGED notBrowser

\* removeFromCart(productId): parseInt(productId) is NaN for a gift's id
removeFromCart ==
  /\ \E n \in 1..NumShopItems :
       /\ CartPlace(memoryCart, ProductItem(n)) > 0
       /\ memoryCart' = WithoutPlace(memoryCart, CartPlace(memoryCart, ProductItem(n)))
       /\ saveCartToStorage(memoryCart')
  /\ UNCHANGED notBrowser

\* updateCartItemQuantity(productId, newQuantity)
updateCartItemQuantity ==
  /\ \E n \in 1..NumShopItems, newQuantity \in 0..MaxQuantity :
       LET k == CartPlace(memoryCart, ProductItem(n)) IN
       /\ k > 0
       /\ memoryCart' = IF newQuantity <= 0 THEN WithoutPlace(memoryCart, k)
                        ELSE [memoryCart EXCEPT ![k].quantity = newQuantity]
       /\ saveCartToStorage(memoryCart')
  /\ UNCHANGED notBrowser

\* clearCart()
clearCart ==
  /\ memoryCart # << >>
  /\ memoryCart' = << >>
  /\ saveCartToStorage(memoryCart')
  /\ UNCHANGED notBrowser

\* addGiftToCart(giftId, button): reads the stored array, adds the gift to it
\* and stores it; the array `cart` of cart.js is not touched.
addGiftToCart ==
  /\ QuantityOf(localStorage, GiftItem) + 1 <= MaxQuantity
  /\ localStorage' = WithAdded(localStorage, GiftItem, 1)
  /\ UNCHANGED memoryCart
  /\ UNCHANGED notBrowser

\* initializeCart(): a page is loaded and reads the stored cart
initializeCart ==
  /\ memoryCart # localStorage
  /\ memoryCart' = localStorage
  /\ UNCHANGED localStorage
  /\ UNCHANGED notBrowser

NextBrowser ==
  \/ addToCart
  \/ removeFromCart
  \/ updateCartItemQuantity
  \/ clearCart
  \/ addGiftToCart
  \/ initializeCart

SpecBrowser == Init /\ [][NextBrowser]_vars

\* ------------------------------------------- asyncHandler, errorHandler
\* The errors the route handlers of this server throw.
ThrownErrors ==
  {createError(NumberValue(404), StringValue("Cart not found")),
   createError(NumberValue(400), StringValue("Product is out of stock")),
   createError(NumberValue(401), StringValue("Not authenticated")),
   LibraryError("connect ECONNREFUSED"),
   [LibraryError("jwt malformed") EXCEPT !.name = "JsonWebTokenError"]}

\* asyncHandler(fn)(req, res, next): fn is an async function, so calling it
\* returns a promise whatever happens inside; the handler stops at its first
\* await, or settles at once if it has none.
CallWrapped(i) ==
  /\ calls[i].pc = "idle"
  /\ \E n \in 0..MaxAwaits, throws \in BOOLEAN :
       calls' = [calls EXCEPT ![i] = [IdleCall EXCEPT !.pc = "pending", !.awaits = n,
                                                      !.throws = throws]]
  /\ UNCHANGED notAsync

\* The handler gets past one await.
Resume(i) ==
  /\ calls[i].pc = "pending" /\ calls[i].awaits > 0
  /\ calls' = [calls EXCEPT ![i].awaits = @ - 1]
  /\ UNCHANGED notAsync

\* The handler returns after answering: its promise is fulfilled.
Resolve(i) ==
  /\ calls[i].pc = "pending" /\ calls[i].awaits = 0 /\ ~calls[i].throws
  /\ calls' = [calls EXCEPT ![i].pc = "fulfilled", ![i].status = 200]
  /\ UNCHANGED notAsync

\* The handler throws, or a call it awaits rejects: its promise is rejected.
Reject(i) ==
  /\ calls[i].pc = "pending" /\ calls[i].awaits = 0 /\ calls[i].throws
  /\ \E e \in ThrownErrors : calls' = [calls EXCEPT ![i].pc = "rejected", ![i].error = e]
  /\ UNCHANGED notAsync

\* Mutant: the rejection is swallowed.
CatchSwallows(i) ==
  /\ calls[i].pc = "rejected"
  /\ calls' = [calls EXCEPT ![i].pc = "errorHandler"]
  /\ UNCHANGED notAsync

\* .catch(next): the reaction to the rejection calls next(error)
CatchNext(i) ==
  /\ calls[i].pc = "rejected"
  /\ calls' = [calls EXCEPT ![i].pc = "errorHandler",
                            ![i].nextCalls = Append(@, calls[i].error)]
  /\ UNCHANGED notAsync

\* app.use(errorHandler): Express hands the error next was called with to the
\* error handler, which answers.
RunErrorHandler(i) ==
  /\ calls[i].pc = "errorHandler"
  /\ calls' = [calls EXCEPT ![i].pc = "answered",
                            ![i].status = errorHandler(Head(calls[i].nextCalls))]
  /\ UNCHANGED notAsync

\* The connection is done with; the slot serves the next call.
CallOver(i) ==
  /\ calls[i].pc \in {"fulfilled", "answered"}
  /\ calls' = [calls EXCEPT ![i] = IdleCall]
  /\ UNCHANGED notAsync

NextAsync ==
  \/ \E i \in Wrapped : CallWrapped(i)
  \/ \E i \in Wrapped : Resume(i)
  \/ \E i \in Wrapped : Resolve(i)
  \/ \E i \in Wrapped : Reject(i)
  \/ \E i \in Wrapped : CatchNext(i)
  \/ \E i \in Wrapped : RunErrorHandler(i)
  \/ \E i \in Wrapped : CallOver(i)

SpecAsync == Init /\ [][NextAsync]_vars

\* ------------------------------------------- POST /newsletter/subscribe
\* body('email').isEmail()
isEmail(email) == email.wellFormed

\* .normalizeEmail(): the address in lower case
normalizeEmail(email) == [email EXCEPT !.capitals = FALSE]

\* The addresses a client submits.
SubmittedEmails ==
  {Address(n, c) : n \in 1..(NumNames + 1), c \in BOOLEAN} \cup {NotAnAddress}

\* subscriptions.find(sub => sub.email === email), as a place in the array; 0 if none
SubscriptionIndex(subscriptions, email) ==
  IF \E k \in 1..Len(subscriptions) : subscriptions[k].email = email
    THEN CHOOSE k \in 1..Len(subscriptions) :
           /\ subscriptions[k].email = email
           /\ \A j \in 1..(k - 1) : subscriptions[j].email # email
    ELSE 0

NewsRequests == BagToSet(newsInflight)

\* The request arrives and goes through the validators; the sanitizer has put
\* the normalised address into req.body.email.
Subscribe ==
  /\ BagCardinality(newsInflight) < NumNewsReqs
  /\ \E e \in SubmittedEmails :
       IF isEmail(e)
         THEN /\ newsInflight' = newsInflight (+)
                   SetToBag({[pc |-> "read", submitted |-> e, email |-> normalizeEmail(e),
                              subscriptions |-> << >>]})
              /\ newsRes' = NoNewsRes
         ELSE /\ newsRes' = [status |-> 400, email |-> e]
              /\ UNCHANGED newsInflight
  /\ UNCHANGED newsFile
  /\ UNCHANGED notNews

\* Mutant: an address that is already there is pushed a second time.
PushAgain(subscriptions, email) ==
  Append(subscriptions, [email |-> email, status |-> "active"])

\* The array the handler is about to write: the cancelled subscription made
\* active again, or a new subscription pushed.
Subscribed(subscriptions, email) ==
  LET k == SubscriptionIndex(subscriptions, email) IN
  IF k > 0 THEN [subscriptions EXCEPT ![k].status = "active"]
  ELSE Append(subscriptions, [email |-> email, status |-> "active"])

\* const subscriptions = await readNewsletterSubscriptions(), then the
\* handler up to its 409 or up to its call of writeNewsletterSubscriptions
NewsRead(q) ==
  /\ q.pc = "read"
  /\ LET k == SubscriptionIndex(newsFile, q.email) IN
     IF k > 0 /\ newsFile[k].status = "active"
       THEN /\ newsInflight' = newsInflight (-) SetToBag({q})
            /\ newsRes' = [status |-> 409, email |-> q.submitted]
       ELSE /\ newsInflight' = (newsInflight (-) SetToBag({q})) (+)
                 SetToBag({[q EXCEPT !.pc = "write",
                                     !.subscriptions = Subscribed(newsFile, q.email)]})
            /\ newsRes' = NoNewsRes
  /\ UNCHANGED newsFile
  /\ UNCHANGED notNews

\* await writeNewsletterSubscriptions(subscriptions); res.status(201)
NewsWrite(q) ==
  /\ q.pc = "write"
  /\ newsFile' = q.subscriptions
  /\ newsInflight' = newsInflight (-) SetToBag({q})
  /\ newsRes' = [status |-> 201, email |-> q.submitted]
  /\ UNCHANGED notNews

NextNews ==
  \/ Subscribe
  \/ \E q \in NewsRequests : NewsRead(q)
  \/ \E q \in NewsRequests : NewsWrite(q)

SpecNews == Init /\ [][NextNews]_vars

\* ------------------------------------------------- admin: attempt status
\* getLoginAttemptStatus(identifier): null when a Redis call throws; with the
\* block key present the fixed "blocked" report; otherwise the counter read.
NoStatus == [known |-> FALSE, blocked |-> FALSE, attempts |-> 0, remaining |-> 0, blockedFor |-> 0]

getLoginAttemptStatus(i) ==
  IF ~redisUp THEN NoStatus
  ELSE IF IsBlocked(i)
    THEN [known |-> TRUE, blocked |-> TRUE, attempts |-> MAX_ATTEMPTS, remaining |-> 0,
          blockedFor |-> blockTtl[i]]
    ELSE [known |-> TRUE, blocked |-> FALSE, attempts |-> AttemptCount(i),
          remaining |-> RemainingAttempts(AttemptCount(i)), blockedFor |-> 0]

\* What checkLoginAttempts does with a login sent now: 429 with the block key
\* present or with the counter at the maximum, next() otherwise and whenever
\* a Redis call throws.
CheckRejects(i) == redisUp /\ (IsBlocked(i) \/ MaxReached(AttemptCount(i)))

\* ------------------------------------------------------------------ claims
\* One copy of the request q took its step / a request now stands as p.
Stepped(q) == CopiesIn(q, inflight') < CopiesIn(q, inflight)
Arrived(p) == CopiesIn(p, inflight') > CopiesIn(p, inflight)

\* The step is recordFailedAttempt writing the counter and answering 401.
Recorded == res'.from = "login" /\ res'.attemptInfo.set

\* C1: starting with no counter, no flag and no login in flight, after 5
\* failures recorded in sequence (no success, expiry or unblock in between) the
\* next checkLoginAttempts takes the blocking branch and answers 429; after
\* fewer than 5 it calls next() with req.loginAttempts set.
C1_ThresholdBlocks ==
  [][\A q \in Requests :
       /\ (q.pc = "chkCount" /\ redisUp /\ Stepped(q) /\ RunClean(q.identifier)) =>
            \E p \in BagToSet(inflight') :
               /\ Arrived(p)
               /\ IF failRun[q.identifier] >= MAX_ATTEMPTS
                  THEN p.pc = "chkSetBlock"
                  ELSE p.pc = "verify" /\ p.hasLoginAttempts
                       /\ MAX_ATTEMPTS - p.currentAttempts
                            = MAX_ATTEMPTS - failRun[q.identifier]
       /\ (q.pc = "chkSetBlock" /\ redisUp /\ Stepped(q)) =>
            \E p \in BagToSet(inflight') : Arrived(p) /\ p.pc = "chkDel"
       /\ (q.pc = "chkDel" /\ redisUp /\ Stepped(q)) =>
            res'.from = "login" /\ res'.status = 429 /\ ~res'.issued
    ]_vars

\* C1 witness: five failures are on record and the check has taken the
\* blocking branch.
C1_Witness ==
  \E q \in Requests : q.pc = "chkSetBlock" /\ failRun[q.identifier] = MAX_ATTEMPTS

\* C2 as claimed: when recordFailedAttempt brings the count to the threshold,
\* the Block Flag is set with the cool-down TTL and the counter is gone by the
\* time it returns.
C2_BlockOnRecord ==
  [][Recorded /\ res'.attemptInfo.attempts >= MAX_ATTEMPTS =>
       /\ blockTtl'[res'.req.identifier] = BLOCK_DURATION
       /\ attemptTtl'[res'.req.identifier] = 0
    ]_vars

\* C2 amended: recordFailedAttempt reaching the threshold leaves the counter at
\* that count with the attempt-window TTL, writes no Block Flag and returns
\* willBlock; the next checkLoginAttempts that reads the counter at or above
\* the threshold writes the flag with the BLOCK_DURATION TTL and then deletes
\* the counter.
C2_BlockOnNextCheck ==
  [][/\ Recorded /\ res'.attemptInfo.attempts >= MAX_ATTEMPTS =>
          LET i == res'.req.identifier IN
          /\ attemptVal'[i] = res'.attemptInfo.attempts
          /\ attemptTtl'[i] = ATTEMPT_WINDOW
          /\ blockTtl'[i] = 0
          /\ res'.attemptInfo.willBlock
     /\ \A q \in Requests :
          /\ (q.pc = "chkCount" /\ redisUp /\ Stepped(q)
                /\ AttemptCount(q.identifier) >= MAX_ATTEMPTS) =>
               \E p \in BagToSet(inflight') : Arrived(p) /\ p.pc = "chkSetBlock"
          /\ (q.pc = "chkSetBlock" /\ redisUp /\ Stepped(q)) =>
               blockTtl'[q.identifier] = BLOCK_DURATION
          /\ (q.pc = "chkDel" /\ redisUp /\ Stepped(q)) =>
               attemptTtl'[q.identifier] = 0 /\ attemptVal'[q.identifier] = 0
    ]_vars

\* C2 witness: the fifth failure has just been answered; the counter stands at
\* 5 and no flag exists.
C2_Witness ==
  /\ res.from = "login" /\ res.attemptInfo.set
  /\ res.attemptInfo.attempts = MAX_ATTEMPTS /\ res.attemptInfo.willBlock
  /\ attemptVal[res.req.identifier] = MAX_ATTEMPTS
  /\ blockTtl[res.req.identifier] = 0

\* C3: a login attempt whose check finds the Block Flag present (the store
\* answering) is answered 429 by the check: it never reaches the validators or
\* the credential check and no session or token is issued, whatever the counter.
C3_BlockedRejected ==
  /\ \A q \in Requests : q.sawBlock /\ q.threwAt = "" => q.pc = "chkTtl"
  /\ res.from = "login" /\ res.req.sawBlock /\ res.req.threwAt = "" =>
       res.status = 429 /\ ~res.issued /\ res.req.cred = "none"

\* C3 witness: a request was turned away by the flag while a counter value was
\* also stored.
C3_Witness ==
  /\ res.from = "login" /\ res.req.sawBlock /\ res.status = 429
  /\ attemptTtl[res.req.identifier] > 0

\* C4 as claimed: the Attempt Counter of an identifier only goes down by being
\* removed on a successful login, on the breach that sets the block, on the
\* administrative unblock or by its TTL running out.
C4_CounterMonotone ==
  [][\A i \in Idents :
       (IF attemptTtl'[i] > 0 THEN attemptVal'[i] ELSE 0) < AttemptCount(i) =>
          \/ /\ res'.from = "login" /\ res'.req.identifier = i
             /\ res'.req.pc \in {"clear", "chkDel"}
          \/ admin.pc = "delKey" /\ admin.identifier = i /\ admin'.pc = "delBlock"
          \/ Expires(i) /\ inflight' = inflight /\ admin' = admin
    ]_vars

\* C5 as claimed: for a run of failures that began with no login in flight,
\* once the recordFailedAttempt calls for the identifier have all returned its
\* counter lies between the largest count any of them returned and the number
\* of failures recorded, and the Block Flag is never written while it is
\* already set.
C5_ConcurrentFailuresConverge ==
  /\ [](\A i \in Idents :
          (NoLoginFor(i, inflight) /\ attemptTtl[i] > 0 /\ RunClean(i)) =>
             maxInc[i] <= attemptVal[i] /\ attemptVal[i] <= failRun[i])
  /\ [][\A q \in Requests :
          (q.pc = "chkSetBlock" /\ redisUp /\ Stepped(q)) =>
             blockTtl[q.identifier] = 0
       ]_vars

\* C6 as claimed: a failure recorded while the identifier is blocked leaves the
\* flag and its TTL as they are, and a block in force lasts one cool-down:
\* no step of any login request raises the TTL of a flag that is set.
C6_OneBlockPerBreach ==
  [][/\ Recorded => blockTtl' = blockTtl
     /\ \A i \in Idents : blockTtl[i] > 0 => blockTtl'[i] <= blockTtl[i]
    ]_vars

\* C7: whichever store call of checkLoginAttempts rejects, the request is not
\* answered by the check: it goes on to the route (validators and credential
\* check), and no answer it gets comes from the failed check.
C7_FailOpen ==
  /\ [](/\ \A q \in Requests :
             q.threwAt # "" => q.pc \in {"verify", "recFail", "clear"}
        /\ res.from = "login" /\ res.req.threwAt # "" =>
             /\ res.req.pc \in {"verify", "recFail", "clear"}
             /\ res.status \in {200, 400, 401, 500}
             /\ res.status = 500 => res.req.pc = "clear")
  /\ [][\A q \in Requests :
          (q.pc \in {"chkBlock", "chkTtl", "chkCount", "chkSetBlock", "chkDel"}
             /\ ~redisUp /\ Stepped(q)) =>
             /\ res' = NoRes
             /\ \E p \in BagToSet(inflight') :
                   Arrived(p) /\ p.pc = "verify" /\ p.threwAt = q.pc
       ]_vars

\* C7 witness: the last store call of the check (the del after the flag was
\* written) rejected and the login was still carried through to success.
C7_Witness ==
  res.from = "login" /\ res.req.threwAt = "chkDel" /\ res.status = 200

\* C8: a success that cleared the recorded failures (fewer than 5) is followed
\* by a recordFailedAttempt that returns attempts = 1 and remaining = 4 and
\* leaves the counter at 1.
C8_CountRestartsAfterSuccess ==
  (res.from = "login" /\ res.afterClear) =>
     /\ res.attemptInfo.attempts = 1
     /\ res.attemptInfo.remaining = MAX_ATTEMPTS - 1
     /\ ~res.attemptInfo.willBlock
     /\ attemptVal[res.req.identifier] = 1
     /\ attemptTtl[res.req.identifier] = ATTEMPT_WINDOW

\* C8 witness: the failure answered last followed a success that cleared
\* recorded failures, and it was counted as the first.
C8_Witness ==
  res.from = "login" /\ res.afterClear /\ res.attemptInfo.attempts = 1

\* C9 as claimed: from the return of unblockUser until a new failure is
\* recorded, the identifier has neither Block Flag nor Attempt Counter, so the
\* check reports not blocked with remaining = 5.
C9_UnblockHolds ==
  \A i \in Idents :
     lastReset[i] = "unblock" =>
        ~IsBlocked(i) /\ MAX_ATTEMPTS - AttemptCount(i) = MAX_ATTEMPTS

\* C10 as claimed: whenever the Block Flag is written, the Attempt Counter in
\* the store is at or above the threshold at that moment.
C10_FlagOnlyAtThreshold ==
  [][\A q \in Requests :
       (q.pc = "chkSetBlock" /\ redisUp /\ Stepped(q)) =>
          AttemptCount(q.identifier) >= MAX_ATTEMPTS
    ]_vars

\* The positions of a request inside checkLoginAttempts.
ChkPcs == {"chkBlock", "chkTtl", "chkCount", "chkSetBlock", "chkDel"}

\* C11: in every login request the check runs before any credential
\* verification (a request still in the check has verified nothing, one in the
\* route has been let through by the check), recordFailedAttempt is called only
\* for a request whose credential check failed and clearFailedAttempts only for
\* one whose check succeeded, and the call is the request's last step: it is
\* made once and the request is answered (401, or the login answer).
C11_CheckThenVerifyThenRecord ==
  /\ [](/\ \A q \in Requests :
             /\ q.pc \in ChkPcs => q.cred = "none"
             /\ q.pc = "verify" =>
                  q.cred = "none" /\ (q.hasLoginAttempts \/ q.threwAt # "")
             /\ q.pc = "recFail" => q.cred \in {"nouser", "wrongpw"}
             /\ q.pc = "clear" => q.cred = "ok"
        /\ res.from = "login" =>
             /\ res.req.cred \in {"nouser", "wrongpw"} <=> res.req.pc = "recFail"
             /\ res.req.cred = "ok" <=> res.req.pc = "clear"
             /\ res.status = 401 <=> res.req.pc = "recFail"
             /\ res.status = 200 => res.req.pc = "clear"
             /\ res.attemptInfo.set => res.req.pc = "recFail")
  /\ [][\A q \in Requests :
          (q.pc \in {"recFail", "clear"} /\ Stepped(q)) =>
             /\ res'.from = "login" /\ res'.req = q
             /\ BagCardinality(inflight') = BagCardinality(inflight) - 1
       ]_vars

\* C11 witness: an unknown user was answered 401 by the recording step, after
\* the check had let the request through and the failure was counted.
C11_Witness ==
  /\ res.from = "login" /\ res.status = 401 /\ res.req.cred = "nouser"
  /\ res.req.hasLoginAttempts /\ res.attemptInfo.set

\* C12: every recordFailedAttempt that returns attempt info returns
\* remaining = max(0, MAX_ATTEMPTS - attempts), between 0 and MAX_ATTEMPTS - 1,
\* and willBlock exactly when remaining is 0.
C12_RemainingNeverNegative ==
  (res.from = "login" /\ res.attemptInfo.set) =>
     /\ res.attemptInfo.remaining = Max(0, MAX_ATTEMPTS - res.attemptInfo.attempts)
     /\ res.attemptInfo.remaining \in 0..(MAX_ATTEMPTS - 1)
     /\ res.attemptInfo.willBlock <=> res.attemptInfo.remaining = 0

\* C12 witness: the failure that reaches the threshold returned remaining 0
\* and willBlock.
C12_Witness ==
  /\ res.from = "login" /\ res.attemptInfo.set
  /\ res.attemptInfo.remaining = 0 /\ res.attemptInfo.willBlock

\* C13 as claimed: recordFailedAttempt gives the counter the attempt-window TTL
\* when it creates it and leaves the TTL of a counter that exists as it is.
C13_WindowFromFirstFailure ==
  [][Recorded =>
       LET i == res'.req.identifier IN
       attemptTtl'[i] = IF attemptTtl[i] > 0 THEN attemptTtl[i] ELSE ATTEMPT_WINDOW
    ]_vars

\* The sum of unit price x quantity in cents, in exact arithmetic.
RECURSIVE ExactSubtotal(_)
ExactSubtotal(items) ==
  IF items = << >> THEN 0
  ELSE items[1].price * ToNumber(items[1].quantity) + ExactSubtotal(Tail(items))

\* Every line item has a positive unit price and a positive quantity.
ValidItems(items) ==
  \A k \in 1..Len(items) : items[k].price > 0 /\ ToNumber(items[k].quantity) > 0

\* The free-shipping threshold and the flat fee, in cents.
ThresholdCents == 75 * 100
FlatFeeCents == 999

\* C14 as claimed: the totals of an empty item list are subtotal 0, tax 0,
\* shipping 0 and total 0, not eligible for free shipping, 75.00 to go.
C14_EmptyAllZero ==
  (result.returned /\ lineItems = << >>) =>
     /\ result.subtotal = 0 /\ result.tax = 0
     /\ result.shipping = 0 /\ result.total = 0
     /\ ~result.freeShipping
     /\ result.amountForFreeShipping = ThresholdCents

\* C15 as claimed: a call with a line item whose unit price or quantity is
\* zero or negative returns no totals.
C15_InvalidRejected ==
  ~ValidItems(lineItems) => ~result.returned

\* C16 as claimed: for valid line items the reported shipping is 0 exactly when
\* the reported subtotal is at least 75.00 and 9.99 otherwise, freeShipping says
\* the same, and amountForFreeShipping is max(0, 75.00 - subtotal).
C16_ShippingByThreshold ==
  (result.returned /\ ValidItems(lineItems)) =>
     /\ result.shipping = IF result.subtotal >= ThresholdCents THEN 0 ELSE FlatFeeCents
     /\ result.freeShipping <=> result.subtotal >= ThresholdCents
     /\ result.amountForFreeShipping = Max(0, ThresholdCents - result.subtotal)

\* C17 as claimed: for valid line items priced in whole cents the reported
\* subtotal is the exact sum of price x quantity and the reported tax is that
\* sum x 0.085 rounded half-up to the cent.
C17_SubtotalAndTax ==
  (result.returned /\ ValidItems(lineItems)) =>
     /\ result.subtotal = ExactSubtotal(lineItems)
     /\ result.tax = (ExactSubtotal(lineItems) * 85 + 500) \div 1000

\* C18 as claimed: for valid line items the reported total is the sum of the
\* reported subtotal, tax and shipping.
C18_FiguresAddUp ==
  (result.returned /\ ValidItems(lineItems)) =>
     result.total = result.subtotal + result.tax + result.shipping

\* The sum of the quantities of the items, each taken as a number.
RECURSIVE QuantitySum(_)
QuantitySum(items) ==
  IF items = << >> THEN 0 ELSE ToNumber(items[1].quantity) + QuantitySum(Tail(items))

\* C19 as claimed: every stored cart's totals are calculateCartTotals of its
\* items and its itemCount is the sum of its item quantities.
C19_TotalsFollowItems ==
  \A k \in 1..Len(cartsFile) :
     /\ cartsFile[k].totals = calculateCartTotals(cartsFile[k].items)
     /\ ToNumber(cartsFile[k].itemCount) = QuantitySum(cartsFile[k].items)

\* How long the code keeps an entry, by kind of key, in seconds: two minutes
\* for a product list, five minutes for a single product.
AmendedLifetime(key) == IF key = ListKey THEN 2 * 60 ELSE 5 * 60

C21_NextOnceOnRejection ==
  \A i \in Wrapped :
     /\ calls[i].pc \in {"idle", "pending", "fulfilled", "rejected"} => calls[i].nextCalls = << >>
     /\ calls[i].pc \in {"errorHandler", "answered"} => calls[i].nextCalls = <<calls[i].error>>
     /\ calls[i].pc = "answered" => calls[i].status = errorHandler(calls[i].error)

\* A handler was rejected and the error handler has answered for its error.
C21_Witness ==
  \E i \in Wrapped : calls[i].pc = "answered" /\ calls[i].nextCalls = <<calls[i].error>>

\* The active subscriptions of an address in the file.
ActiveFor(subscriptions, email) ==
  {k \in 1..Len(subscriptions) :
     subscriptions[k].email = email /\ subscriptions[k].status = "active"}

C29_StatusAgreesWithCheck ==
  \A i \in Idents :
     getLoginAttemptStatus(i).known =>
        /\ getLoginAttemptStatus(i).blocked <=> CheckRejects(i)
        /\ ~getLoginAttemptStatus(i).blocked =>
             getLoginAttemptStatus(i).remaining = RemainingAttempts(AttemptCount(i))

\* C23 as claimed: a block flag goes only by its expiry or by the admin
\* unblock, an attempt counter only by its expiry, by a login request (the
\* successful login, the breach that becomes a block) or by the admin unblock;
\* a step of a product request leaves every login key as it was.
C23_LoginKeysOutliveProductWrites ==
  [][\A i \in Idents :
       /\ (blockTtl[i] > 0 /\ blockTtl'[i] = 0) =>
            \/ admin' # admin
            \/ Expire(blockTtl[i]) = 0 /\ cacheInflight' = cacheInflight
       /\ (attemptTtl[i] > 0 /\ attemptTtl'[i] = 0) =>
            \/ admin' # admin
            \/ inflight' # inflight
            \/ Expire(attemptTtl[i]) = 0 /\ cacheInflight' = cacheInflight
       /\ cacheInflight' # cacheInflight =>
            UNCHANGED <<attemptVal[i], attemptTtl[i], blockTtl[i]>>]_vars

\* The failed checks on record for an account: the live counters of every
\* spelling of its email, added up.
RECURSIVE FailuresOnRecord(_, _)
FailuresOnRecord(account, k) ==
  IF k = 0 THEN 0
  ELSE (IF AccountOf(k) = account THEN AttemptCount(k) ELSE 0)
       + FailuresOnRecord(account, k - 1)

\* C24 as claimed: within one attempt window an account has at most
\* MAX_ATTEMPTS failed checks on record, however the email was written in the
\* requests.
C24_FiveFailuresPerAccount ==
  \A account \in Idents : FailuresOnRecord(account, 2 * NumIdents) <= MAX_ATTEMPTS

\* C26 as claimed: a cart route called with a well-formed session id that has
\* no stored cart answers 404 with the error's message and leaves carts.json
\* as it was.
C26_NoCartIs404 ==
  [][\A q \in CartRequests :
       (/\ cartInflight' = cartInflight (-) SetToBag({q})
        /\ q.op # "create" /\ q.sessionId # 0
        /\ CartIndex(HasRead(q).carts, q.sessionId) = 0)
       => /\ cartRes'.status = 404
          /\ cartRes'.error = "Cart not found"
          /\ cartsFile' = cartsFile]_vars

\* An add whose product is in the cart already, with a quantity that would
\* take the item past 99.
WouldExceed(q) ==
  LET k == CartIndex(q.carts, q.sessionId)
      i == ItemIndex(q.carts[k].items, q.productId) IN
  /\ q.op = "add" /\ q.pc = "readProducts"
  /\ k # 0 /\ i # 0
  /\ ToNumber(q.carts[k].items[i].quantity)
       + ToNumber(IF q.hasQuantity THEN q.quantity ELSE Num(1)) > 99

StoredProducts(carts, sessionId) ==
  IF CartIndex(carts, sessionId) = 0 THEN {}
  ELSE {carts[CartIndex(carts, sessionId)].items[i].productId :
          i \in 1..Len(carts[CartIndex(carts, sessionId)].items)}

\* C27 as claimed, for adds: the write that ends a successful add keeps every
\* stored cart and every item that another request's successful write has put
\* into the file.
C27_WritesKeepOthersChanges ==
  [][\A q \in CartRequests :
       (q.pc = "writeCarts" /\ q.op \in {"create", "add"}
        /\ cartInflight' = cartInflight (-) SetToBag({q}))
       => \A s \in Sessions : StoredProducts(cartsFile, s) \subseteq StoredProducts(cartsFile', s)
                              /\ (CartIndex(cartsFile, s) # 0 => CartIndex(cartsFile', s) # 0)]_vars

CartIds(items) == {items[k].id : k \in 1..Len(items)}

\* C28 as claimed: after every operation the array in memory and the stored
\* array hold the same items, and an item leaves the stored cart only in a
\* step that removes items: no step that adds an item or changes another
\* item's quantity loses one.
C28_ItemsStayInCart ==
  /\ [](memoryCart = localStorage)
  /\ [][\A id \in CartIds(localStorage) \ CartIds(localStorage') :
          /\ CartIds(localStorage') \subseteq CartIds(localStorage)
          /\ \A other \in CartIds(localStorage') :
               QuantityOf(localStorage', other) = QuantityOf(localStorage, other)]_vars

\* C25 as claimed: a GET that arrived after a change of the products had been
\* answered is never served from a cache entry computed from the table as it
\* was before that change.
C25_NoStaleEntryServed ==
  cacheRes.source = "cache" => cacheRes.version >= cacheRes.since
====
